---- MODULE Spec2Model ----
(***************************************************************************)
(* Model of server/analyzer/cache.py: the per-domain sliding-window rate   *)
(* limiter (URLRateLimiter) and the file-backed result cache               *)
(* (AnalysisCache).                                                        *)
(*                                                                         *)
(* Strings are sequences of tokens; "/" is a token of its own, so that     *)
(* url.split('/') is computed as Python computes it.  Time is a natural    *)
(* number read from a clock that never runs backwards.                     *)
(***************************************************************************)
EXTENDS Integers, Sequences, FiniteSets, TLC

VARIABLES
    clock,          \* the wall clock: time.time() / datetime.now()
    rate_limit,     \* URLRateLimiter.rate_limit
    requests,       \* URLRateLimiter.requests: domain -> list of timestamps
    calls,          \* history: the can_process calls that reached the lock
    raised,         \* history: whether the latest can_process call raised IndexError
    pre,            \* history: requests as it was before the latest call
    solo,           \* history: per domain, a limiter that sees only that domain's calls
    nticks,         \* history: how often the clock has advanced
    ttl,            \* AnalysisCache.ttl, in hours
    max_size_bytes, \* AnalysisCache.max_size_bytes
    files,          \* the *.json files of cache_dir: key -> text and st_mtime
    lastOp,         \* history: the latest cache operation and its outcome
    task,           \* the concurrent callers of the cache: what each is doing
    holder,         \* AnalysisCache.lock: the task that holds it, 0 when free
    waiters,        \* AnalysisCache.lock: the tasks waiting for it, in order
    lastDone,       \* history: the latest operation a task has ended
    committed,      \* history: per key, the result of the latest finished write
    nops            \* history: how many operations the tasks have started

rlvars == <<rate_limit, requests, calls, raised, pre, solo>>
cvars == <<ttl, max_size_bytes, files, lastOp>>
tvars == <<task, holder, waiters, lastDone, committed, nops>>
vars == <<clock, nticks, rate_limit, requests, calls, raised, pre, solo,
          ttl, max_size_bytes, files, lastOp,
          task, holder, waiters, lastDone, committed, nops>>

----------------------------------------------------------------------------
(* Bounds of the model *)

MaxLimit == 2
MaxCalls == 4
MaxTicks == 3
MaxTtlHours == 1
MaxSizeMb == 2
\* The size of a megabyte, in the unit in which a record's size is counted.
Megabyte == 4
MaxTasks == 2
MaxOps == 2

----------------------------------------------------------------------------
(* URLRateLimiter *)

window_size == 60

\* The clock advances by one time unit or by one unit less than the window.
Steps == {1, window_size - 1}

Url(scheme, host, path) == <<scheme, "/", "/">> \o host \o path

URLs ==
    { Url("http:", <<"a.example">>, <<"/", "x">>),
      Url("http:", <<"a.example">>, <<"/", "y">>),
      Url("https:", <<"b.example">>, <<>>),
      <<"a.example", "/", "x">> }

Min(S) == CHOOSE x \in S : \A y \in S : x <= y

SeqRange(s) == { s[i] : i \in 1..Len(s) }

\* str.split(sep): the pieces between the separators, empty pieces kept.
RECURSIVE Split(_, _)
Split(s, sep) ==
    IF \A i \in 1..Len(s) : s[i] # sep
    THEN <<s>>
    ELSE LET i == Min({ j \in 1..Len(s) : s[j] = sep })
         IN  <<SubSeq(s, 1, i - 1)>> \o Split(SubSeq(s, i + 1, Len(s)), sep)

\* url.split('/')[2] raises IndexError when there are fewer than three pieces.
HasDomain(url) == Len(Split(url, "/")) >= 3
DomainOf(url) == Split(url, "/")[3]

DomainKeys == { DomainOf(u) : u \in { v \in URLs : HasDomain(v) } }

\* dict.get(domain, [])
Get(reqs, d) == IF d \in DOMAIN reqs THEN reqs[d] ELSE <<>>

Fresh(list, cutoff) == SelectSeq(list, LAMBDA t : t > cutoff)

\* A limiter that forgets a domain only once all its timestamps are old.
CleanWhenAllOld(reqs, now) ==
    LET cutoff == now - window_size
        keep == { d \in DOMAIN reqs : Fresh(reqs[d], cutoff) # <<>> }
    IN  [d \in keep |-> reqs[d]]

\* A limiter whose window is one time unit short.
CleanShortWindow(reqs, now) ==
    LET cutoff == now - window_size + 1
        keep == { d \in DOMAIN reqs : Fresh(reqs[d], cutoff) # <<>> }
    IN  [d \in keep |-> Fresh(reqs[d], cutoff)]

\* A limiter that keeps a timestamp whose age is exactly the window.
CleanKeepsBoundary(reqs, now) ==
    LET cutoff == now - window_size
        kept(list) == SelectSeq(list, LAMBDA t : t >= cutoff)
        keep == { d \in DOMAIN reqs : kept(reqs[d]) # <<>> }
    IN  [d \in keep |-> kept(reqs[d])]

\* A limiter that keeps the domains whose lists it has emptied.
CleanKeepsEmptyDomains(reqs, now) ==
    LET cutoff == now - window_size
    IN  [d \in DOMAIN reqs |-> Fresh(reqs[d], cutoff)]

\* _clean_old_requests: keep the timestamps newer than the cutoff, drop the
\* domains left without any.
CleanOldRequests(reqs, now) ==
    LET cutoff == now - window_size
        keep == { d \in DOMAIN reqs : Fresh(reqs[d], cutoff) # <<>> }
    IN  [d \in keep |-> Fresh(reqs[d], cutoff)]

Put(reqs, d, list) ==
    [x \in DOMAIN reqs \cup {d} |-> IF x = d THEN list ELSE reqs[x]]

\* Sum of the lengths of all the lists of a requests map.
RECURSIVE TotalLen(_)
TotalLen(reqs) ==
    IF DOMAIN reqs = {} THEN 0
    ELSE LET d == CHOOSE x \in DOMAIN reqs : TRUE
         IN  Len(reqs[d]) + TotalLen([x \in DOMAIN reqs \ {d} |-> reqs[x]])

\* can_process comparing with > where the code compares with >=.
AdmitOffByOne(reqs, limit, d, now) ==
    LET cleaned == CleanOldRequests(reqs, now)
        domain_requests == Get(cleaned, d)
    IN  IF Len(domain_requests) > limit
        THEN [requests |-> cleaned, ok |-> FALSE]
        ELSE [requests |-> Put(cleaned, d, Append(domain_requests, now)),
              ok |-> TRUE]

\* can_process counting the requests of all domains against the limit.
AdmitGlobalCount(reqs, limit, d, now) ==
    LET cleaned == CleanOldRequests(reqs, now)
        domain_requests == Get(cleaned, d)
    IN  IF TotalLen(cleaned) >= limit
        THEN [requests |-> cleaned, ok |-> FALSE]
        ELSE [requests |-> Put(cleaned, d, Append(domain_requests, now)),
              ok |-> TRUE]

\* can_process recording the attempt before it checks the limit.
AdmitRecordsDenied(reqs, limit, d, now) ==
    LET cleaned == CleanOldRequests(reqs, now)
        domain_requests == Get(cleaned, d)
    IN  IF Len(domain_requests) >= limit
        THEN [requests |-> Put(cleaned, d, Append(domain_requests, now)),
              ok |-> FALSE]
        ELSE [requests |-> Put(cleaned, d, Append(domain_requests, now)),
              ok |-> TRUE]

\* can_process forgetting the domain it denies.
AdmitDeniedDropsDomain(reqs, limit, d, now) ==
    LET cleaned == CleanOldRequests(reqs, now)
        domain_requests == Get(cleaned, d)
    IN  IF Len(domain_requests) >= limit
        THEN [requests |-> [x \in DOMAIN cleaned \ {d} |-> cleaned[x]],
              ok |-> FALSE]
        ELSE [requests |-> Put(cleaned, d, Append(domain_requests, now)),
              ok |-> TRUE]

\* The locked part of can_process: the new requests map and the answer.
Admit(reqs, limit, d, now) ==
    LET cleaned == CleanOldRequests(reqs, now)
        domain_requests == Get(cleaned, d)
    IN  IF Len(domain_requests) >= limit
        THEN [requests |-> cleaned, ok |-> FALSE]
        ELSE [requests |-> Put(cleaned, d, Append(domain_requests, now)),
              ok |-> TRUE]

NoOp ==
    [op |-> "none", content |-> "", arg |-> <<>>, found |-> FALSE,
     ret |-> <<>>, exc |-> "none", at |-> 0, before |-> <<>>,
     wrote |-> [arg |-> <<>>, exc |-> "none", set |-> FALSE], gone |-> {}]

Idle ==
    [pc |-> "idle", op |-> "none", content |-> "", arg |-> <<>>,
     cached_at |-> 0, after_set |-> FALSE, before |-> <<>>]

NoneDone ==
    [op |-> "none", content |-> "", arg |-> <<>>, found |-> FALSE,
     ret |-> <<>>, exc |-> "none", cached_at |-> 0, after_set |-> FALSE,
     before |-> <<>>, after |-> <<>>]

InitLimiter ==
    /\ clock = 0
    /\ nticks = 0
    /\ rate_limit \in 0..MaxLimit
    /\ requests = <<>>
    /\ calls = <<>>
    /\ raised = FALSE
    /\ pre = <<>>
    /\ solo = [d \in DomainKeys |-> <<>>]
    /\ ttl = 0
    /\ max_size_bytes = 0
    /\ files = <<>>
    /\ lastOp = NoOp
    /\ task = [t \in 1..MaxTasks |-> Idle]
    /\ holder = 0
    /\ waiters = <<>>
    /\ lastDone = NoneDone
    /\ committed = <<>>
    /\ nops = 0

\* A can_process that prunes before it looks for the domain.
CanProcessMalformedPrunes(url) ==
    /\ ~HasDomain(url)
    /\ raised' = TRUE
    /\ pre' = requests
    /\ requests' = CleanOldRequests(requests, clock)
    /\ UNCHANGED <<clock, nticks, rate_limit, calls, solo>>
    /\ UNCHANGED <<cvars, tvars>>

\* can_process(url) on a URL without a third piece: IndexError, raised
\* before the lock is taken.
CanProcessMalformed(url) ==
    /\ ~HasDomain(url)
    /\ raised' = TRUE
    /\ pre' = requests
    /\ UNCHANGED <<clock, nticks, rate_limit, requests, calls, solo>>
    /\ UNCHANGED <<cvars, tvars>>

\* can_process(url).  Nothing awaits between reading the time and leaving
\* the lock (the lock is free whenever a task arrives), so the call is one
\* step.
CanProcess(url) ==
    /\ Len(calls) < MaxCalls
    /\ HasDomain(url)
    /\ LET d == DomainOf(url)
           r == Admit(requests, rate_limit, d, clock)
           s == Admit(solo[d], rate_limit, d, clock)
       IN  /\ requests' = r.requests
           /\ solo' = [solo EXCEPT ![d] = s.requests]
           /\ calls' = Append(calls, [dom |-> d, now |-> clock,
                                      res |-> r.ok, alone |-> s.ok])
    /\ raised' = FALSE
    /\ pre' = requests
    /\ UNCHANGED <<clock, nticks, rate_limit>>
    /\ UNCHANGED <<cvars, tvars>>

Tick(step) ==
    /\ nticks < MaxTicks
    /\ clock' = clock + step
    /\ nticks' = nticks + 1
    /\ UNCHANGED <<rlvars, cvars, tvars>>

NextLimiter ==
    \/ \E url \in URLs : CanProcess(url)
    \/ \E url \in URLs : CanProcessMalformed(url)
    \/ \E step \in Steps : Tick(step)

SpecLimiter == InitLimiter /\ [][NextLimiter]_vars

----------------------------------------------------------------------------
(* AnalysisCache *)

Contents == {"c1", "c2", "c3"}

\* Analysis results, as the token sequences of their JSON text.
Results == { <<"a">>, <<"a", "b">> }

\* hashlib.sha256(content.encode()).hexdigest(): one key per content.
CacheKey(content) == <<"sha256", content>>

\* datetime.isoformat() and datetime.fromisoformat().
IsoFormat(t) == ToString(t)
IsIso(s) == \E t \in 0..clock : ToString(t) = s
FromIso(s) == CHOOSE t \in 0..clock : ToString(t) = s

\* json.dumps(cache_data): the text written to the file.
Dumps(cache_data) == <<IsoFormat(cache_data.cached_at)>> \o cache_data.result

\* A token no JSON text starts with.
NotJson == "~"

\* Bytes that are not text, JSON text that is not an object, and an object
\* without the key cached_at.
NotText == "\\xff"
NotObject == "[]"
NoCachedAt == "{}"

\* The exceptions that get catches.
Caught == {"JSONDecodeError", "KeyError"}

\* f.read(), json.loads(text) and cached_data['cached_at']: the exception
\* raised, if any.  An object without the key result has the empty result
\* here, its lookup comes after the TTL test.
Loads(text) ==
    IF text = <<>> \/ Head(text) = NotJson
    THEN [err |-> "JSONDecodeError", cached_at |-> "", result |-> <<>>]
    ELSE IF Head(text) = NotText
    THEN [err |-> "UnicodeDecodeError", cached_at |-> "", result |-> <<>>]
    ELSE IF Head(text) = NotObject
    THEN [err |-> "TypeError", cached_at |-> "", result |-> <<>>]
    ELSE IF Head(text) = NoCachedAt
    THEN [err |-> "KeyError", cached_at |-> "", result |-> <<>>]
    ELSE [err |-> "none", cached_at |-> Head(text), result |-> Tail(text)]

\* stat().st_size
StSize(file) == Len(file.text)

RECURSIVE TotalSize(_)
TotalSize(fs) ==
    IF DOMAIN fs = {} THEN 0
    ELSE LET k == CHOOSE x \in DOMAIN fs : TRUE
         IN  StSize(fs[k]) + TotalSize([x \in DOMAIN fs \ {k} |-> fs[x]])

\* _remove_cache_file: unlink, a missing file is not an error.
RemoveCacheFile(fs, k) == [x \in DOMAIN fs \ {k} |-> fs[x]]

WriteFile(fs, k, file) ==
    [x \in DOMAIN fs \cup {k} |-> IF x = k THEN file ELSE fs[x]]

\* cache_files.sort(key=mtime): the sort is stable and glob lists the
\* directory in no particular order, so files of equal st_mtime come in any
\* order.
SortedByMtime(fs) ==
    { order \in [1..Cardinality(DOMAIN fs) -> DOMAIN fs] :
        /\ \A i, j \in DOMAIN order : i # j => order[i] # order[j]
        /\ \A i, j \in DOMAIN order :
              i < j => fs[order[i]].mtime <= fs[order[j]].mtime }

\* The loop of _ensure_cache_size from position i of the sorted list:
\* remove the file, then subtract file.stat().st_size, which raises
\* FileNotFoundError when the file is no longer there.
RECURSIVE RemoveUntilUnderLimit(_, _, _, _)
RemoveUntilUnderLimit(fs, order, i, total) ==
    IF i > Len(order)
    THEN [files |-> fs, exc |-> "none"]
    ELSE LET removed == RemoveCacheFile(fs, order[i])
         IN  IF order[i] \notin DOMAIN removed
             THEN [files |-> removed, exc |-> "FileNotFoundError"]
             ELSE LET left == total - StSize(removed[order[i]])
                  IN  IF left <= max_size_bytes
                      THEN [files |-> removed, exc |-> "none"]
                      ELSE RemoveUntilUnderLimit(removed, order, i + 1, left)

\* A cache that never enforces its size.
EnsureNothing(fs) == { [files |-> fs, exc |-> "none"] }

\* _ensure_cache_size: the possible outcomes, one per order of the sort.
EnsureCacheSize(fs) ==
    LET total_size == TotalSize(fs)
    IN  IF total_size > max_size_bytes
        THEN { RemoveUntilUnderLimit(fs, order, 1, total_size) :
                 order \in SortedByMtime(fs) }
        ELSE { [files |-> fs, exc |-> "none"] }

\* A get that reports a malformed record as a miss and leaves it in place.
ReadCachedKeepsMalformed(fs, k, now) ==
    LET cached_data == Loads(fs[k].text)
        miss(left) == [files |-> left, found |-> FALSE, ret |-> <<>>,
                       exc |-> "none"]
    IN  IF cached_data.err \in Caught
        THEN miss(fs)
        ELSE IF cached_data.err # "none"
        THEN [files |-> fs, found |-> FALSE, ret |-> <<>>,
              exc |-> cached_data.err]
        ELSE IF ~IsIso(cached_data.cached_at)
        THEN [files |-> fs, found |-> FALSE, ret |-> <<>>,
              exc |-> "ValueError"]
        ELSE IF now - FromIso(cached_data.cached_at) > ttl
        THEN miss(RemoveCacheFile(fs, k))
        ELSE IF cached_data.result = <<>>
        THEN miss(fs)
        ELSE [files |-> fs, found |-> TRUE,
              ret |-> cached_data.result, exc |-> "none"]

\* A get that reports an expired record as a miss and leaves it in place.
ReadCachedKeepsExpired(fs, k, now) ==
    LET cached_data == Loads(fs[k].text)
        miss(left) == [files |-> left, found |-> FALSE, ret |-> <<>>,
                       exc |-> "none"]
    IN  IF cached_data.err \in Caught
        THEN miss(RemoveCacheFile(fs, k))
        ELSE IF cached_data.err # "none"
        THEN [files |-> fs, found |-> FALSE, ret |-> <<>>,
              exc |-> cached_data.err]
        ELSE IF ~IsIso(cached_data.cached_at)
        THEN [files |-> fs, found |-> FALSE, ret |-> <<>>,
              exc |-> "ValueError"]
        ELSE IF now - FromIso(cached_data.cached_at) > ttl
        THEN miss(fs)
        ELSE IF cached_data.result = <<>>
        THEN miss(RemoveCacheFile(fs, k))
        ELSE [files |-> fs, found |-> TRUE,
              ret |-> cached_data.result, exc |-> "none"]

\* A get that stamps the record it returns with the time of the read.
ReadCachedTouches(fs, k, now) ==
    LET cached_data == Loads(fs[k].text)
        miss(left) == [files |-> left, found |-> FALSE, ret |-> <<>>,
                       exc |-> "none"]
    IN  IF cached_data.err \in Caught
        THEN miss(RemoveCacheFile(fs, k))
        ELSE IF cached_data.err # "none"
        THEN [files |-> fs, found |-> FALSE, ret |-> <<>>,
              exc |-> cached_data.err]
        ELSE IF ~IsIso(cached_data.cached_at)
        THEN [files |-> fs, found |-> FALSE, ret |-> <<>>,
              exc |-> "ValueError"]
        ELSE IF now - FromIso(cached_data.cached_at) > ttl
        THEN miss(RemoveCacheFile(fs, k))
        ELSE IF cached_data.result = <<>>
        THEN miss(RemoveCacheFile(fs, k))
        ELSE [files |-> WriteFile(fs, k, [fs[k] EXCEPT !.mtime = now]), found |-> TRUE,
              ret |-> cached_data.result, exc |-> "none"]

\* A get that takes a record whose age is the TTL for expired.
ReadCachedExpiresAtTtl(fs, k, now) ==
    LET cached_data == Loads(fs[k].text)
        miss(left) == [files |-> left, found |-> FALSE, ret |-> <<>>,
                       exc |-> "none"]
    IN  IF cached_data.err \in Caught
        THEN miss(RemoveCacheFile(fs, k))
        ELSE IF cached_data.err # "none"
        THEN [files |-> fs, found |-> FALSE, ret |-> <<>>,
              exc |-> cached_data.err]
        ELSE IF ~IsIso(cached_data.cached_at)
        THEN [files |-> fs, found |-> FALSE, ret |-> <<>>,
              exc |-> "ValueError"]
        ELSE IF now - FromIso(cached_data.cached_at) >= ttl
        THEN miss(RemoveCacheFile(fs, k))
        ELSE IF cached_data.result = <<>>
        THEN miss(RemoveCacheFile(fs, k))
        ELSE [files |-> fs, found |-> TRUE,
              ret |-> cached_data.result, exc |-> "none"]

\* The locked part of get, for an existing file: an exception that get
\* catches removes the file, any other leaves get with the file in place.
ReadCached(fs, k, now) ==
    LET cached_data == Loads(fs[k].text)
        miss(left) == [files |-> left, found |-> FALSE, ret |-> <<>>,
                       exc |-> "none"]
    IN  IF cached_data.err \in Caught
        THEN miss(RemoveCacheFile(fs, k))
        ELSE IF cached_data.err # "none"
        THEN [files |-> fs, found |-> FALSE, ret |-> <<>>,
              exc |-> cached_data.err]
        ELSE IF ~IsIso(cached_data.cached_at)
        THEN [files |-> fs, found |-> FALSE, ret |-> <<>>,
              exc |-> "ValueError"]
        ELSE IF now - FromIso(cached_data.cached_at) > ttl
        THEN miss(RemoveCacheFile(fs, k))
        ELSE IF cached_data.result = <<>>
        THEN miss(RemoveCacheFile(fs, k))
        ELSE [files |-> fs, found |-> TRUE,
              ret |-> cached_data.result, exc |-> "none"]

InitCache ==
    /\ clock = 0
    /\ nticks = 0
    /\ rate_limit = 0
    /\ requests = <<>>
    /\ calls = <<>>
    /\ raised = FALSE
    /\ pre = <<>>
    /\ solo = [d \in DomainKeys |-> <<>>]
    /\ ttl \in 0..MaxTtlHours
    /\ max_size_bytes \in { max_size_mb * Megabyte : max_size_mb \in 1..MaxSizeMb }
    /\ files = <<>>
    /\ lastOp = NoOp
    /\ task = [t \in 1..MaxTasks |-> Idle]
    /\ holder = 0
    /\ waiters = <<>>
    /\ lastDone = NoneDone
    /\ committed = <<>>
    /\ nops = 0

\* What a get records of the set made just before it.
WroteBefore(content) ==
    IF lastOp.op = "set" /\ lastOp.content = content /\ lastOp.at = clock
    THEN [arg |-> lastOp.arg, exc |-> lastOp.exc, set |-> TRUE]
    ELSE [arg |-> <<>>, exc |-> "none", set |-> FALSE]

\* A get that opens the file without first checking that it exists.
CacheGetNoExistsCheck(content) ==
    LET k == CacheKey(content)
        out == IF k \notin DOMAIN files
               THEN [files |-> files, found |-> FALSE, ret |-> <<>>,
                     exc |-> "FileNotFoundError"]
               ELSE ReadCached(files, k, clock)
    IN  /\ files' = out.files
        /\ lastOp' = [op |-> "get", content |-> content, arg |-> <<>>,
                       found |-> out.found, ret |-> out.ret,
                       exc |-> out.exc, at |-> clock, before |-> files,
                       wrote |-> WroteBefore(content)]
        /\ UNCHANGED <<clock, nticks, ttl, max_size_bytes, rlvars, tvars>>

\* get(content), no other task running.
CacheGet(content) ==
    LET k == CacheKey(content)
        out == IF k \notin DOMAIN files
               THEN [files |-> files, found |-> FALSE, ret |-> <<>>,
                     exc |-> "none"]
               ELSE ReadCached(files, k, clock)
    IN  /\ files' = out.files
        /\ lastOp' = [op |-> "get", content |-> content, arg |-> <<>>,
                       found |-> out.found, ret |-> out.ret,
                       exc |-> out.exc, at |-> clock, before |-> files,
                       wrote |-> WroteBefore(content)]
        /\ UNCHANGED <<clock, nticks, ttl, max_size_bytes, rlvars, tvars>>

\* set(content, result), no other task running.
CacheSet(content, result) ==
    LET k == CacheKey(content)
        cache_data == [cached_at |-> clock, result |-> result]
    IN  \E e \in EnsureCacheSize(files) :
            /\ files' = IF e.exc # "none"
                         THEN e.files
                         ELSE WriteFile(e.files, k,
                                        [text |-> Dumps(cache_data),
                                         mtime |-> clock])
            /\ lastOp' = [op |-> "set", content |-> content, arg |-> result,
                           found |-> FALSE, ret |-> <<>>, exc |-> e.exc,
                           at |-> clock, before |-> files,
                           wrote |-> NoOp.wrote]
            /\ UNCHANGED <<clock, nticks, ttl, max_size_bytes, rlvars, tvars>>

\* clear(), no other task running.
CacheClear ==
    /\ files' = <<>>
    /\ lastOp' = [NoOp EXCEPT !.op = "clear", !.at = clock, !.before = files]
    /\ UNCHANGED <<clock, nticks, ttl, max_size_bytes, rlvars, tvars>>

NextCache ==
    \/ \E content \in Contents : CacheGet(content)
    \/ \E content \in Contents, result \in Results : CacheSet(content, result)
    \/ CacheClear
    \/ Tick(1)

SpecCache == InitCache /\ [][NextCache]_vars

----------------------------------------------------------------------------
(* AnalysisCache called by concurrent tasks of one event loop *)

Tasks == 1..MaxTasks

TaskContents == {"c1", "c2"}

\* What can end a write that has begun: the disk refuses it, or the task is
\* cancelled while it waits for the write.
WriteFailures == {"OSError", "CancelledError"}

\* The file of key k as a sequence of no or one file.
FileOf(fs, k) == IF k \in DOMAIN fs THEN <<fs[k]>> ELSE <<>>

\* A lock that lets every caller in.
LockAlwaysFree(h) == TRUE

\* asyncio.Lock.acquire returns without suspending when the lock is free.
LockIsFree(h) == h = 0

\* A lock that stays held when the block it guards raises.
AExitLeaksOnError(t, w, exc) ==
    IF exc # "none" THEN [holder |-> t, waiters |-> w]
    ELSE IF w = <<>> THEN [holder |-> 0, waiters |-> <<>>]
    ELSE [holder |-> Head(w), waiters |-> Tail(w)]

\* The end of "async with self.lock", reached on return and on exception
\* alike: the lock passes to the first waiter, if any.
AExit(t, w, exc) ==
    IF w = <<>> THEN [holder |-> 0, waiters |-> <<>>]
    ELSE [holder |-> Head(w), waiters |-> Tail(w)]

Done(t, op, exc) ==
    [NoneDone EXCEPT !.op = op, !.content = task[t].content,
                     !.arg = task[t].arg, !.exc = exc,
                     !.cached_at = task[t].cached_at,
                     !.after_set = task[t].after_set]

\* The task leaves the locked block and its operation ends.
Ends(t, w, done) ==
    /\ task' = [task EXCEPT ![t] = Idle]
    /\ lastDone' = done
    /\ holder' = AExit(t, w, done.exc).holder
    /\ waiters' = AExit(t, w, done.exc).waiters

\* The task finds the lock held and waits for it.
Waits(t, op, content, arg, after_set) ==
    /\ task' = [task EXCEPT ![t] =
                  [Idle EXCEPT !.pc = "waiting", !.op = op,
                               !.content = content, !.arg = arg,
                               !.after_set = after_set,
                               !.cached_at = IF op = "set" THEN clock ELSE 0]]
    /\ waiters' = Append(waiters, t)
    /\ UNCHANGED <<holder, files, lastDone, committed>>

\* get with the lock: up to the suspension in aiofiles.open.
GetLocked(t, content, after_set, w) ==
    /\ task' = [task EXCEPT ![t] =
                  [Idle EXCEPT !.pc = "reading", !.op = "get",
                               !.content = content, !.after_set = after_set]]
    /\ holder' = t
    /\ waiters' = w
    /\ UNCHANGED <<files, lastDone, committed>>

\* set with the lock: _ensure_cache_size, up to the suspension in
\* aiofiles.open.
SetLocked(t, content, result, cached_at, w) ==
    \E e \in EnsureCacheSize(files) :
        /\ files' = e.files
        /\ IF e.exc # "none"
           THEN Ends(t, w, [NoneDone EXCEPT !.op = "set", !.content = content,
                                            !.arg = result, !.exc = e.exc,
                                            !.cached_at = cached_at])
           ELSE /\ task' = [task EXCEPT ![t] =
                              [Idle EXCEPT !.pc = "opening", !.op = "set",
                                           !.content = content,
                                           !.arg = result,
                                           !.cached_at = cached_at]]
                /\ holder' = t
                /\ waiters' = w
                /\ UNCHANGED lastDone
        /\ UNCHANGED committed

\* clear with the lock: it never suspends.
ClearLocked(t, w) ==
    /\ files' = <<>>
    /\ Ends(t, w, [NoneDone EXCEPT !.op = "clear"])
    /\ UNCHANGED committed

\* A task calls get(content): the exists() test is made before the lock is
\* asked for.
TaskGet(t, content) ==
    LET k == CacheKey(content)
        after_set == k \in DOMAIN committed
    IN  /\ task[t].pc = "idle"
        /\ nops < MaxOps
        /\ nops' = nops + 1
        /\ IF k \notin DOMAIN files
           THEN /\ lastDone' = [NoneDone EXCEPT !.op = "get",
                                                !.content = content,
                                                !.after_set = after_set]
                /\ UNCHANGED <<task, holder, waiters, files, committed>>
           ELSE IF LockIsFree(holder)
           THEN GetLocked(t, content, after_set, waiters)
           ELSE Waits(t, "get", content, <<>>, after_set)
        /\ UNCHANGED <<clock, nticks, ttl, max_size_bytes, rlvars, lastOp>>

\* A task calls set(content, result): cached_at is read before the lock is
\* asked for.
TaskSet(t, content, result) ==
    /\ task[t].pc = "idle"
    /\ nops < MaxOps
    /\ nops' = nops + 1
    /\ IF LockIsFree(holder)
       THEN SetLocked(t, content, result, clock, waiters)
       ELSE Waits(t, "set", content, result, FALSE)
    /\ UNCHANGED <<clock, nticks, ttl, max_size_bytes, rlvars, lastOp>>

\* A task calls clear().
TaskClear(t) ==
    /\ task[t].pc = "idle"
    /\ nops < MaxOps
    /\ nops' = nops + 1
    /\ IF LockIsFree(holder)
       THEN ClearLocked(t, waiters)
       ELSE Waits(t, "clear", "", <<>>, FALSE)
    /\ UNCHANGED <<clock, nticks, ttl, max_size_bytes, rlvars, lastOp>>

\* A waiting task that was handed the lock runs on.
TaskGranted(t) ==
    /\ task[t].pc = "waiting"
    /\ holder = t
    /\ IF task[t].op = "get"
       THEN GetLocked(t, task[t].content, task[t].after_set, waiters)
       ELSE IF task[t].op = "set"
       THEN SetLocked(t, task[t].content, task[t].arg, task[t].cached_at,
                      waiters)
       ELSE ClearLocked(t, waiters)
    /\ UNCHANGED <<clock, nticks, ttl, max_size_bytes, rlvars, lastOp, nops>>

\* get: aiofiles.open(cache_file, 'r') and what follows it.  A file that is
\* gone by now makes open raise FileNotFoundError, which get does not catch.
TaskRead(t) ==
    LET k == CacheKey(task[t].content)
        out == IF k \notin DOMAIN files
               THEN [files |-> files, found |-> FALSE, ret |-> <<>>,
                     exc |-> "FileNotFoundError"]
               ELSE ReadCached(files, k, clock)
    IN  /\ task[t].pc = "reading"
        /\ files' = out.files
        /\ Ends(t, waiters, [Done(t, "get", out.exc) EXCEPT
                               !.found = out.found, !.ret = out.ret])
        /\ UNCHANGED <<clock, nticks, ttl, max_size_bytes, rlvars, lastOp,
                       committed, nops>>

\* set: aiofiles.open(cache_file, 'w') creates the file or empties it.
TaskOpen(t) ==
    LET k == CacheKey(task[t].content)
    IN  /\ task[t].pc = "opening"
        /\ files' = WriteFile(files, k, [text |-> <<>>, mtime |-> clock])
        /\ task' = [task EXCEPT ![t].pc = "opened",
                                ![t].before = FileOf(files, k)]
        /\ UNCHANGED <<clock, nticks, ttl, max_size_bytes, rlvars, lastOp,
                       holder, waiters, lastDone, committed, nops>>

\* set: f.write(json.dumps(cache_data)) and the close of the file.
TaskWrite(t) ==
    LET k == CacheKey(task[t].content)
        cache_data == [cached_at |-> task[t].cached_at,
                       result |-> task[t].arg]
        written == WriteFile(files, k, [text |-> Dumps(cache_data),
                                        mtime |-> clock])
    IN  /\ task[t].pc = "opened"
        /\ files' = written
        /\ committed' = Put(committed, k, task[t].arg)
        /\ Ends(t, waiters, [Done(t, "set", "none") EXCEPT
                               !.before = task[t].before,
                               !.after = FileOf(written, k)])
        /\ UNCHANGED <<clock, nticks, ttl, max_size_bytes, rlvars, lastOp,
                       nops>>

\* set: the write fails, or the task is cancelled before it is made.
TaskWriteFails(t, exc) ==
    LET k == CacheKey(task[t].content)
    IN  /\ task[t].pc = "opened"
        /\ Ends(t, waiters, [Done(t, "set", exc) EXCEPT
                               !.before = task[t].before,
                               !.after = FileOf(files, k)])
        /\ UNCHANGED <<clock, nticks, ttl, max_size_bytes, rlvars, lastOp,
                       files, committed, nops>>

\* The record an earlier instance has left in the cache directory.
StoredBefore ==
    [text |-> Dumps([cached_at |-> 0, result |-> <<"a">>]), mtime |-> 0]

\* A new instance over a directory that holds one record, with a TTL of
\* zero hours and the smallest size limit.
InitTasks ==
    /\ clock = 0
    /\ nticks = 0
    /\ rate_limit = 0
    /\ requests = <<>>
    /\ calls = <<>>
    /\ raised = FALSE
    /\ pre = <<>>
    /\ solo = [d \in DomainKeys |-> <<>>]
    /\ ttl = 0
    /\ max_size_bytes = Megabyte
    /\ files = WriteFile(<<>>, CacheKey("c1"), StoredBefore)
    /\ lastOp = NoOp
    /\ task = [t \in Tasks |-> Idle]
    /\ holder = 0
    /\ waiters = <<>>
    /\ lastDone = NoneDone
    /\ committed = Put(<<>>, CacheKey("c1"), <<"a">>)
    /\ nops = 0

\* Time passes while tasks run, until the records written at the start have
\* expired.
TaskTick ==
    /\ clock <= ttl
    /\ Tick(1)

TaskStep(t) ==
    \/ TaskGranted(t)
    \/ TaskRead(t)
    \/ TaskOpen(t)
    \/ TaskWrite(t)

NextTasks ==
    \/ \E t \in Tasks, content \in TaskContents : TaskGet(t, content)
    \/ \E t \in Tasks, content \in TaskContents, result \in Results :
          TaskSet(t, content, result)
    \/ \E t \in Tasks : TaskClear(t)
    \/ \E t \in Tasks : TaskStep(t)
    \/ \E t \in Tasks, exc \in WriteFailures : TaskWriteFails(t, exc)
    \/ TaskTick

SpecTasks == InitTasks /\ [][NextTasks]_vars

\* The event loop runs every task that can run.
SpecTasksFair == SpecTasks /\ \A t \in Tasks : WF_vars(TaskStep(t))

----------------------------------------------------------------------------
(* AnalysisCache over a directory that something else writes to *)

FaultContents == {"c1", "c2"}

\* What a cache file holds after it was damaged: nothing, or text that is
\* not JSON.
Garbage == { <<>>, <<NotJson>>, <<NotJson, "a">> }

\* A clear that gives up at the first listed file that is gone.
RECURSIVE ClearAllStrict(_, _)
ClearAllStrict(fs, listed) ==
    IF listed = {}
    THEN [files |-> fs, exc |-> "none"]
    ELSE LET k == CHOOSE x \in listed : TRUE
         IN  IF k \notin DOMAIN fs
             THEN [files |-> fs, exc |-> "FileNotFoundError"]
             ELSE ClearAllStrict(RemoveCacheFile(fs, k), listed \ {k})

\* The loop of clear over the files that glob has listed: a listed file
\* that is gone is passed over by _remove_cache_file.
RECURSIVE ClearAll(_, _)
ClearAll(fs, listed) ==
    IF listed = {}
    THEN [files |-> fs, exc |-> "none"]
    ELSE LET k == CHOOSE x \in listed : TRUE
         IN  ClearAll(RemoveCacheFile(fs, k), listed \ {k})

\* The file of a stored record is overwritten from outside the cache.
Corrupt(content, garbage) ==
    LET k == CacheKey(content)
    IN  /\ k \in DOMAIN files
        /\ files' = WriteFile(files, k, [text |-> garbage, mtime |-> clock])
        /\ lastOp' = [NoOp EXCEPT !.op = "corrupt", !.content = content,
                                  !.at = clock, !.before = files]
        /\ UNCHANGED <<clock, nticks, ttl, max_size_bytes, rlvars, tvars>>

\* clear() when the files in gone are deleted from outside after glob has
\* listed them and before clear unlinks them.
CacheClearRaced(gone) ==
    LET left == [x \in DOMAIN files \ gone |-> files[x]]
        out == ClearAll(left, DOMAIN files)
    IN  /\ gone # {}
        /\ gone \subseteq DOMAIN files
        /\ files' = out.files
        /\ lastOp' = [NoOp EXCEPT !.op = "clear", !.exc = out.exc,
                                  !.at = clock, !.before = files,
                                  !.gone = gone]
        /\ UNCHANGED <<clock, nticks, ttl, max_size_bytes, rlvars, tvars>>

InitFaults ==
    /\ clock = 0
    /\ nticks = 0
    /\ rate_limit = 0
    /\ requests = <<>>
    /\ calls = <<>>
    /\ raised = FALSE
    /\ pre = <<>>
    /\ solo = [d \in DomainKeys |-> <<>>]
    /\ ttl \in 0..MaxTtlHours
    /\ max_size_bytes \in { max_size_mb * Megabyte : max_size_mb \in 1..MaxSizeMb }
    /\ files = <<>>
    /\ lastOp = NoOp
    /\ task = [t \in 1..MaxTasks |-> Idle]
    /\ holder = 0
    /\ waiters = <<>>
    /\ lastDone = NoneDone
    /\ committed = <<>>
    /\ nops = 0

NextFaults ==
    \/ \E content \in FaultContents : CacheGet(content)
    \/ \E content \in FaultContents, result \in Results :
          CacheSet(content, result)
    \/ CacheClear
    \/ \E gone \in SUBSET { CacheKey(content) : content \in FaultContents } :
          CacheClearRaced(gone)
    \/ \E content \in FaultContents, garbage \in Garbage :
          Corrupt(content, garbage)
    \/ Tick(1)

SpecFaults == InitFaults /\ [][NextFaults]_vars

----------------------------------------------------------------------------
(* AnalysisCache reading records that cannot be deserialized *)

DamageContents == {"c1"}

\* What a damaged cache file can hold: nothing, text that is not JSON, bytes
\* that are not text, JSON that is not an object, an object without
\* cached_at, an object without result, and an object whose cached_at is no
\* ISO timestamp.
Damage ==
    { <<>>, <<NotJson>>, <<NotText>>, <<NotObject>>, <<NoCachedAt>>,
      <<IsoFormat(0)>>, <<"yesterday", "a">> }

InitDamage ==
    /\ clock = 0
    /\ nticks = 0
    /\ rate_limit = 0
    /\ requests = <<>>
    /\ calls = <<>>
    /\ raised = FALSE
    /\ pre = <<>>
    /\ solo = [d \in DomainKeys |-> <<>>]
    /\ ttl \in 0..MaxTtlHours
    /\ max_size_bytes = MaxSizeMb * Megabyte
    /\ files = <<>>
    /\ lastOp = NoOp
    /\ task = [t \in 1..MaxTasks |-> Idle]
    /\ holder = 0
    /\ waiters = <<>>
    /\ lastDone = NoneDone
    /\ committed = <<>>
    /\ nops = 0

NextDamage ==
    \/ \E content \in DamageContents : CacheGet(content)
    \/ \E content \in DamageContents, result \in Results :
          CacheSet(content, result)
    \/ \E content \in DamageContents, garbage \in Damage :
          Corrupt(content, garbage)
    \/ Tick(1)

SpecDamage == InitDamage /\ [][NextDamage]_vars

----------------------------------------------------------------------------
(* The process is restarted: new instances over the same cache directory *)

RestartContents == {"c1"}

RestartURLs == { u \in URLs : HasDomain(u) /\ DomainOf(u) = <<"b.example">> }

\* A construction that starts from an empty directory.
MkDirFresh(fs) == <<>>

\* cache_dir.mkdir(exist_ok=True): a directory that is there
\* is left as it is.
MkDir(fs) == fs

\* AnalysisCache(...) and URLRateLimiter(...) are constructed anew with the
\* settings of the old ones; what the old instances held in memory is gone,
\* and the log of calls starts again with the new limiter.
Restart ==
    /\ requests' = <<>>
    /\ calls' = <<>>
    /\ solo' = [d \in DomainKeys |-> <<>>]
    /\ pre' = requests
    /\ raised' = FALSE
    /\ files' = MkDir(files)
    /\ lastOp' = [NoOp EXCEPT !.op = "restart", !.at = clock,
                              !.before = files]
    /\ UNCHANGED <<clock, nticks, rate_limit, ttl, max_size_bytes, tvars>>

InitRestart ==
    /\ clock = 0
    /\ nticks = 0
    /\ rate_limit \in 1..MaxLimit
    /\ requests = <<>>
    /\ calls = <<>>
    /\ raised = FALSE
    /\ pre = <<>>
    /\ solo = [d \in DomainKeys |-> <<>>]
    /\ ttl \in 0..MaxTtlHours
    /\ max_size_bytes = MaxSizeMb * Megabyte
    /\ files = <<>>
    /\ lastOp = NoOp
    /\ task = [t \in 1..MaxTasks |-> Idle]
    /\ holder = 0
    /\ waiters = <<>>
    /\ lastDone = NoneDone
    /\ committed = <<>>
    /\ nops = 0

NextRestart ==
    \/ \E content \in RestartContents : CacheGet(content)
    \/ \E content \in RestartContents, result \in Results :
          CacheSet(content, result)
    \/ \E url \in RestartURLs : CanProcess(url)
    \/ Tick(1)
    \/ Restart

SpecRestart == InitRestart /\ [][NextRestart]_vars

----------------------------------------------------------------------------
(* URLRateLimiter called with URLs that name a host in different ways *)

\* Absolute URLs of the host a.example that differ in scheme, port,
\* userinfo, path and query, and one URL of the host b.example.
HostURLs ==
    { Url("http:", <<"a.example">>, <<"/", "x">>),
      Url("https:", <<"a.example", ":", "8080">>, <<"/", "y">>),
      Url("http:", <<"user", "@", "a.example">>, <<"/", "x">>),
      Url("http:", <<"a.example", "?", "q">>, <<>>),
      Url("http:", <<"b.example">>, <<"/", "x">>) }

HostKeys == { DomainOf(u) : u \in HostURLs }

InitHosts ==
    /\ clock = 0
    /\ nticks = 0
    /\ rate_limit \in 1..MaxLimit
    /\ requests = <<>>
    /\ calls = <<>>
    /\ raised = FALSE
    /\ pre = <<>>
    /\ solo = [d \in HostKeys |-> <<>>]
    /\ ttl = 0
    /\ max_size_bytes = 0
    /\ files = <<>>
    /\ lastOp = NoOp
    /\ task = [t \in 1..MaxTasks |-> Idle]
    /\ holder = 0
    /\ waiters = <<>>
    /\ lastDone = NoneDone
    /\ committed = <<>>
    /\ nops = 0

NextHosts ==
    \/ \E url \in HostURLs : CanProcess(url)

SpecHosts == InitHosts /\ [][NextHosts]_vars

----------------------------------------------------------------------------
(* Properties of URLRateLimiter *)

CallsOf(d) == SelectSeq(calls, LAMBDA c : c.dom = d)

LastCall == calls[Len(calls)]

\* The latest step of the limiter was a can_process call that reached the lock.
Called == calls # <<>> /\ ~raised

IsSuffix(s, t) ==
    Len(s) <= Len(t) /\ s = SubSeq(t, Len(t) - Len(s) + 1, Len(t))

ADomain == <<"a.example">>
BDomain == <<"b.example">>

\* C1: starting from the empty limiter, of the calls for one domain made
\* less than window_size after the first of them, the first rate_limit
\* return true and the next one returns false.
C1_AdmitsUpToLimit ==
    \A d \in DomainKeys :
        LET cs == CallsOf(d)
        IN  \A k \in 1..Len(cs) :
                cs[k].now - cs[1].now < window_size =>
                    /\ k <= rate_limit => cs[k].res = TRUE
                    /\ k = rate_limit + 1 => cs[k].res = FALSE

C1_Witness ==
    /\ rate_limit = 2
    /\ LET cs == CallsOf(ADomain)
       IN  /\ Len(cs) = 3
           /\ cs[3].now - cs[1].now = window_size - 1
           /\ cs[2].res = TRUE
           /\ cs[3].res = FALSE
    /\ CallsOf(BDomain) # <<>>

\* C2: for every domain and every time span shorter than window_size, at
\* most rate_limit of the calls made in the span returned true.
C2_AtMostLimitPerWindow ==
    \A d \in DomainKeys :
        LET cs == CallsOf(d)
        IN  \A i \in 1..Len(cs) :
                Cardinality({ k \in 1..Len(cs) :
                                /\ cs[k].res = TRUE
                                /\ cs[i].now <= cs[k].now
                                /\ cs[k].now < cs[i].now + window_size })
                    <= rate_limit

C2_Witness ==
    /\ rate_limit = 1
    /\ LET cs == CallsOf(ADomain)
       IN  /\ Len(cs) = 3
           /\ cs[1].res = TRUE /\ cs[2].res = FALSE /\ cs[3].res = TRUE
           /\ cs[2].now = cs[1].now + window_size - 1
           /\ cs[3].now = cs[1].now + window_size
    /\ \E i \in 1..Len(calls) : calls[i].dom = BDomain /\ calls[i].res = TRUE

WasDenied(d) ==
    \E i \in 1..(Len(calls) - 1) : calls[i].dom = d /\ calls[i].res = FALSE

C3_Recovers ==
    Called =>
        LET c == LastCall
            recorded == Get(pre, c.dom)
        IN  ( /\ WasDenied(c.dom)
              /\ recorded # <<>>
              /\ c.now >= Min(SeqRange(recorded)) + window_size )
            => c.res = TRUE

C3_Instance ==
    \A d \in DomainKeys :
        LET cs == CallsOf(d)
        IN  ( /\ rate_limit = 2
              /\ Len(cs) = 4
              /\ [i \in 1..4 |-> cs[i].now] = <<0, 1, 2, 61>> )
            => [i \in 1..4 |-> cs[i].res] = <<TRUE, TRUE, FALSE, TRUE>>

\* C3: a call for a domain that was denied before, made window_size or more
\* after the oldest timestamp recorded for the domain, returns true, even
\* while newer timestamps of the domain are still inside the window; with
\* limit 2 and window 60 the calls at 0, 1, 2, 61 return true, true, false,
\* true.
C3_SlidingWindowRecovery == C3_Recovers /\ C3_Instance

\* The oldest timestamp has aged out while a newer one has not, and the call
\* is admitted.
C3_Witness ==
    /\ rate_limit = 2
    /\ Called
    /\ WasDenied(LastCall.dom)
    /\ LET recorded == Get(pre, LastCall.dom)
       IN  /\ Len(recorded) = 2
           /\ LastCall.now >= recorded[1] + window_size
           /\ LastCall.now < recorded[2] + window_size
    /\ LastCall.res = TRUE

\* C4: every call gets the answer it gets from a limiter that is never
\* called for any other domain.
C4_DomainIsolation ==
    \A i \in 1..Len(calls) : calls[i].res = calls[i].alone

\* A's limit is exhausted and, in the same window, B is admitted.
C4_Witness ==
    /\ rate_limit = 1
    /\ \E i, j \in 1..Len(calls) :
          /\ i < j
          /\ calls[i].dom = ADomain /\ calls[i].res = FALSE
          /\ calls[j].dom = BDomain /\ calls[j].res = TRUE
          /\ calls[j].now - calls[1].now < window_size
    /\ \E j \in 1..Len(calls) : calls[j].dom = BDomain /\ calls[j].res = FALSE

\* The times at which the answer for a domain can change.
DecisionTimes(reqs, d, now) ==
    {now} \cup { t + window_size : t \in SeqRange(Get(reqs, d)) }

\* C5: a call that returns false appends no timestamp to any list (every
\* list is a suffix of what it was), and a later call for the domain is
\* admitted at the same times as if the denied call had not been made.
C5_DeniedRecordsNothing ==
    (Called /\ LastCall.res = FALSE) =>
        /\ \A d \in DomainKeys : IsSuffix(Get(requests, d), Get(pre, d))
        /\ \A t \in DecisionTimes(pre, LastCall.dom, LastCall.now) :
              Admit(requests, rate_limit, LastCall.dom, t).ok
                  = Admit(pre, rate_limit, LastCall.dom, t).ok

\* A second denied call in a row for a domain with a positive limit.
C5_Witness ==
    /\ rate_limit = 1
    /\ Called
    /\ LastCall.res = FALSE
    /\ LET cs == CallsOf(LastCall.dom)
       IN  /\ Len(cs) = 3
           /\ cs[2].res = FALSE
           /\ cs[3].now > cs[2].now

\* C17: with a limit of at least 1, from every reachable state a call made
\* window_size later is admitted for every domain, also when a call made
\* just before it was denied.
C17_NoPermanentLockOut ==
    rate_limit >= 1 =>
        \A d \in DomainKeys :
            LET polled == Admit(requests, rate_limit, d,
                                clock + window_size - 1)
            IN  /\ Admit(requests, rate_limit, d, clock + window_size).ok
                /\ polled.ok
                   \/ Admit(polled.requests, rate_limit, d,
                             clock + window_size).ok

\* A domain at its limit, denied now and still denied one time unit before
\* its timestamps age out.
C17_Witness ==
    /\ rate_limit = 2
    /\ Called
    /\ LastCall.res = FALSE
    /\ LastCall.now = clock
    /\ ~Admit(requests, rate_limit, LastCall.dom, clock + window_size - 1).ok

\* The timestamps of a list that are newer than now - window_size.
Kept(list, now) == SelectSeq(list, LAMBDA t : ~(t <= now - window_size))

\* The timestamps of a list that are not older than now - window_size.
KeptNotOlder(list, now) == SelectSeq(list, LAMBDA t : ~(t < now - window_size))

C22_DeniedChangesNothing ==
    (Called /\ ~LastCall.res) => requests = pre

\* C22: a call that returns false changes the map only by discarding the
\* timestamps that are now - window_size or older and the domains left
\* without any, and every call made after it is decided as it would be
\* decided had the denied call not been made.
C22_DeniedOnlyPrunes ==
    (Called /\ ~LastCall.res) =>
        /\ DOMAIN requests \subseteq DOMAIN pre
        /\ \A d \in DomainKeys :
              /\ Get(requests, d) = Kept(Get(pre, d), LastCall.now)
              /\ \A later \in {clock, clock + 1, clock + window_size} :
                    Admit(requests, rate_limit, d, later)
                        = Admit(pre, rate_limit, d, later)

C22_Witness ==
    /\ Called
    /\ ~LastCall.res
    /\ rate_limit >= 1
    /\ requests # pre
    /\ DOMAIN requests # DOMAIN pre

\* C27: no domain of the map has an empty list, and every domain of the map
\* has a timestamp inside the window of the latest call.
C27_NoEmptyDomain ==
    \A d \in DOMAIN requests :
        /\ requests[d] # <<>>
        /\ \E i \in 1..Len(requests[d]) :
              requests[d][i] > LastCall.now - window_size

C27_Witness ==
    /\ Called
    /\ DOMAIN requests # {}
    /\ DOMAIN pre \ DOMAIN requests # {}

\* C29: the list of every domain has at most rate_limit timestamps.
C29_ListAtMostLimit ==
    \A d \in DOMAIN requests : Len(requests[d]) <= rate_limit

C29_Witness ==
    /\ Called
    /\ ~LastCall.res
    /\ rate_limit = 2
    /\ Len(Get(requests, LastCall.dom)) = rate_limit
    /\ Cardinality(DOMAIN requests) = 2

\* C30: a call for a URL without a domain raises and leaves the map as it
\* was, expired timestamps included, so that every later call is decided
\* as it would be without it.
C30_MalformedChangesNothing ==
    raised =>
        /\ requests = pre
        /\ \A d \in DomainKeys :
              Admit(requests, rate_limit, d, clock)
                  = Admit(pre, rate_limit, d, clock)

C30_Witness ==
    /\ raised
    /\ requests = pre
    /\ CleanOldRequests(requests, clock) # requests

----------------------------------------------------------------------------
(* Properties of AnalysisCache *)

LastKey == CacheKey(lastOp.content)

\* The latest set found the store above its maximum.
SetOverLimit ==
    lastOp.op = "set" /\ TotalSize(lastOp.before) > max_size_bytes

\* C6: get(c) made right after set(c, r) returns r.
C6_RoundTrip ==
    (lastOp.op = "get" /\ lastOp.wrote.set) =>
        lastOp.found /\ lastOp.ret = lastOp.wrote.arg

\* C7: a get made more than ttl after the record's last write returns
\* not-found and leaves no record behind, and a get that returns a result
\* returns one written at most ttl ago.
C7_TtlExpiry ==
    lastOp.op = "get" =>
        /\ ( /\ LastKey \in DOMAIN lastOp.before
              /\ lastOp.at - lastOp.before[LastKey].mtime > ttl )
           => (~lastOp.found /\ LastKey \notin DOMAIN files)
        /\ lastOp.found =>
              /\ LastKey \in DOMAIN lastOp.before
              /\ lastOp.at - lastOp.before[LastKey].mtime <= ttl

C7_Witness ==
    /\ lastOp.op = "get"
    /\ ttl = 1
    /\ LastKey \in DOMAIN lastOp.before
    /\ lastOp.at - lastOp.before[LastKey].mtime = 2
    /\ ~lastOp.found
    /\ LastKey \notin DOMAIN files

RECURSIVE SizeOfKeys(_, _)
SizeOfKeys(fs, keys) ==
    IF keys = {} THEN 0
    ELSE LET k == CHOOSE x \in keys : TRUE
         IN  StSize(fs[k]) + SizeOfKeys(fs, keys \ {k})

\* The shortest prefixes, oldest write first, whose removal brings the
\* total to the maximum or below.
ShortestPrefixes(fs) ==
    { LET enough == { n \in 0..Len(order) :
                        TotalSize(fs) - SizeOfKeys(fs, { order[i] : i \in 1..n })
                            <= max_size_bytes }
      IN  { order[i] : i \in 1..Min(enough) }
      : order \in SortedByMtime(fs) }

\* C9: a set that finds the total above the maximum deletes exactly the
\* shortest prefix of the records, oldest write first, that brings the total
\* to the maximum or below.
C9_EvictsShortestPrefix ==
    SetOverLimit =>
        \E prefix \in ShortestPrefixes(lastOp.before) :
            \A k \in DOMAIN lastOp.before :
                (k # LastKey \/ lastOp.exc # "none") =>
                    (k \in DOMAIN files <=> k \notin prefix)

\* C10: a set that finds the total above the maximum completes and writes
\* its record.
C10_SetCompletesOverLimit ==
    SetOverLimit =>
        /\ lastOp.exc = "none"
        /\ LastKey \in DOMAIN files
        /\ files[LastKey].text
             = Dumps([cached_at |-> lastOp.at, result |-> lastOp.arg])

\* C20: a get for a content that has no record returns not-found and leaves
\* every record as it was.
C20_MissOnUnseen ==
    (lastOp.op = "get" /\ LastKey \notin DOMAIN lastOp.before) =>
        /\ ~lastOp.found
        /\ lastOp.exc = "none"
        /\ files = lastOp.before

C20_Witness ==
    /\ lastOp.op = "get"
    /\ LastKey \notin DOMAIN lastOp.before
    /\ Cardinality(DOMAIN lastOp.before) = 2
    /\ ~lastOp.found
    /\ files = lastOp.before

----------------------------------------------------------------------------
(* Properties of AnalysisCache called by concurrent tasks *)

DoneKey == CacheKey(lastDone.content)

\* Inside the block guarded by AnalysisCache.lock, suspended in file I/O.
Inside(t) == task[t].pc \in {"reading", "opening", "opened"}

\* C12: every get returns a result or not-found and never raises, also when
\* the record is deleted after the get has started.
C12_GetNeverFails ==
    lastDone.op = "get" => lastDone.exc = "none"

\* C13: at most one task is inside the locked block, that task holds the
\* lock, and no get reads while a set has a file open for writing.
C13_MutualExclusion ==
    /\ Cardinality({ t \in Tasks : Inside(t) }) <= 1
    /\ \A t \in Tasks : Inside(t) => holder = t
    /\ \A t, u \in Tasks :
          task[t].pc = "reading" => task[u].pc # "opened"

C13_Witness ==
    \E t, u \in Tasks :
        /\ task[t].pc = "opened"
        /\ task[u].pc = "waiting" /\ task[u].op = "get"
        /\ task[u].content = task[t].content

\* C14: a get that starts after a set for its content has completed returns
\* the result of the latest completed set for that content, or not-found.
C14_ReadYourWrites ==
    (lastDone.op = "get" /\ lastDone.after_set) =>
        /\ lastDone.exc = "none"
        /\ lastDone.found => lastDone.ret = committed[DoneKey]

\* C15: a set that fails after its write has begun leaves the complete
\* previous record or the complete new record, and does not lose a
\* previous record.
C15_AtomicReplace ==
    (lastDone.op = "set" /\ lastDone.exc \in WriteFailures) =>
        LET new == Dumps([cached_at |-> lastDone.cached_at,
                          result |-> lastDone.arg])
        IN  /\ lastDone.before # <<>> => lastDone.after # <<>>
            /\ lastDone.after # <<>> =>
                  \/ lastDone.after[1].text = new
                  \/ /\ lastDone.before # <<>>
                     /\ lastDone.after[1].text = lastDone.before[1].text

C16_LockFollowsTasks ==
    /\ holder # 0 => task[holder].pc # "idle"
    /\ \A i \in 1..Len(waiters) : task[waiters[i]].pc = "waiting"
    /\ (\A t \in Tasks : task[t].pc = "idle") =>
          holder = 0 /\ waiters = <<>>

\* C16: the lock is never left held by an operation that has ended, by
\* return or by exception, and every operation that has started ends.
C16_NoLockLeftHeld ==
    /\ []C16_LockFollowsTasks
    /\ \A t \in Tasks : (task[t].pc # "idle") ~> (task[t].pc = "idle")

C16_Witness ==
    /\ lastDone.exc \in WriteFailures \cup {"FileNotFoundError"}
    /\ holder # 0
    /\ task[holder].pc = "waiting"

----------------------------------------------------------------------------
(* Properties of AnalysisCache over a damaged directory *)

C19_ClearEmpties ==
    /\ lastOp.op = "clear" => files = <<>> /\ lastOp.exc = "none"
    /\ (lastOp.op = "get" /\ lastOp.before = <<>>) =>
          ~lastOp.found /\ lastOp.exc = "none" /\ files = <<>>

C19_Witness ==
    /\ lastOp.op = "clear"
    /\ Cardinality(DOMAIN lastOp.before) = 2
    /\ Cardinality(lastOp.gone) = 1
    /\ files = <<>>
    /\ lastOp.exc = "none"

----------------------------------------------------------------------------
(* Properties of a restart *)

\* A well-formed record whose age is at most the TTL of the instance.
Servable(fs, k) ==
    /\ Loads(fs[k].text).err = "none"
    /\ IsIso(Loads(fs[k].text).cached_at)
    /\ clock - FromIso(Loads(fs[k].text).cached_at) <= ttl

\* C18: a construction leaves every record as it was, the new cache answers
\* a get for every record that is well-formed and within its TTL with the
\* stored result, and the new limiter starts with no timestamps and admits
\* a call for every domain.
C18_SurvivesRestart ==
    /\ (lastOp.op = "restart" /\ calls = <<>>) =>
          /\ files = lastOp.before
          /\ \A k \in DOMAIN files :
                Servable(files, k) =>
                    /\ ReadCached(files, k, clock).found
                    /\ ReadCached(files, k, clock).ret = Tail(files[k].text)
                    /\ ReadCached(files, k, clock).files = lastOp.before
          /\ requests = <<>>
          /\ \A d \in DomainKeys : Admit(requests, rate_limit, d, clock).ok
    /\ (/\ lastOp.op = "get"
        /\ LastKey \in DOMAIN lastOp.before
        /\ lastOp.at - FromIso(Head(lastOp.before[LastKey].text)) <= ttl) =>
          /\ lastOp.found
          /\ lastOp.ret = Tail(lastOp.before[LastKey].text)
          /\ files = lastOp.before

C18_Witness ==
    /\ lastOp.op = "restart"
    /\ \E k \in DOMAIN files :
          /\ Servable(files, k)
          /\ files[k].mtime < clock
          /\ ReadCached(files, k, clock).ret = <<"a", "b">>
    /\ calls = <<>>
    /\ Len(Get(pre, BDomain)) = rate_limit

----------------------------------------------------------------------------
(* Properties of get: hits, the TTL boundary and damaged records *)

\* A record as set writes it: an object with an ISO cached_at and a result.
WellFormed(text) ==
    /\ Loads(text).err = "none"
    /\ IsIso(Loads(text).cached_at)
    /\ Loads(text).result # <<>>

\* C23: a get that hits leaves every file as it was, text and time of last
\* write, so that a set made after it evicts what it would have evicted
\* without the get.
C23_HitChangesNothing ==
    (lastOp.op = "get" /\ lastOp.found) =>
        /\ files = lastOp.before
        /\ SortedByMtime(files) = SortedByMtime(lastOp.before)
        /\ EnsureCacheSize(files) = EnsureCacheSize(lastOp.before)

C23_Witness ==
    /\ lastOp.op = "get"
    /\ lastOp.found
    /\ Cardinality(DOMAIN files) >= 2
    /\ files[LastKey].mtime < lastOp.at
    /\ \A k \in DOMAIN files \ {LastKey} : files[k].mtime > files[LastKey].mtime
    /\ files = lastOp.before

\* C24: a get of a well-formed record returns the stored result and keeps
\* the record when the age is at most the TTL, the age equal to the TTL
\* included, and deletes the record and returns not-found when the age is
\* greater.
C24_TtlBoundary ==
    (/\ lastOp.op = "get"
     /\ LastKey \in DOMAIN lastOp.before
     /\ WellFormed(lastOp.before[LastKey].text)) =>
        LET text == lastOp.before[LastKey].text
            age == lastOp.at - FromIso(Head(text))
        IN  /\ lastOp.exc = "none"
            /\ lastOp.found = (age <= ttl)
            /\ lastOp.found =>
                  /\ lastOp.ret = Tail(text)
                  /\ LastKey \in DOMAIN files
                  /\ files[LastKey] = lastOp.before[LastKey]
            /\ ~lastOp.found => LastKey \notin DOMAIN files

C24_Witness ==
    /\ lastOp.op = "get"
    /\ lastOp.found
    /\ ttl = 1
    /\ LastKey \in DOMAIN lastOp.before
    /\ lastOp.at - FromIso(Head(lastOp.before[LastKey].text)) = ttl
    /\ LastKey \in DOMAIN files

\* C25: a get of a record that cannot be deserialized, for whatever reason,
\* returns not-found, raises nothing and deletes the record.
C25_DamagedIsMiss ==
    (/\ lastOp.op = "get"
     /\ LastKey \in DOMAIN lastOp.before
     /\ ~WellFormed(lastOp.before[LastKey].text)) =>
        /\ ~lastOp.found
        /\ lastOp.exc = "none"
        /\ LastKey \notin DOMAIN files

----------------------------------------------------------------------------
(* Properties of cached_at under concurrent sets *)

\* C28: the cached_at that a completed set has stored is not earlier than
\* the time at which the record it replaced was written.
C28_CachedAtIsWriteTime ==
    (/\ lastDone.op = "set"
     /\ lastDone.exc = "none"
     /\ lastDone.before # <<>>
     /\ WellFormed(lastDone.before[1].text)) =>
        lastDone.cached_at >= lastDone.before[1].mtime

----------------------------------------------------------------------------
(* Properties of the rate-limit key *)

\* The host named by the authority of a URL: what follows the userinfo, up
\* to the port, the query or the fragment.
HostOfAuthority(authority) ==
    LET ats == { i \in 1..Len(authority) : authority[i] = "@" }
        from == IF ats = {} THEN 1
                ELSE (CHOOSE i \in ats : \A j \in ats : j <= i) + 1
        ends == { i \in from..Len(authority) :
                    authority[i] \in {":", "?", "#"} }
        to == IF ends = {} THEN Len(authority) ELSE Min(ends) - 1
    IN  SubSeq(authority, from, to)

\* The calls before call i that were admitted for the host of call i inside
\* the window of call i.
AdmittedForHost(i) ==
    { j \in 1..(i - 1) :
        /\ calls[j].res
        /\ HostOfAuthority(calls[j].dom) = HostOfAuthority(calls[i].dom)
        /\ calls[j].now > calls[i].now - window_size }

\* C26: every call is decided on the calls admitted for its host, whatever
\* the scheme, port, userinfo, path or query of their URLs, and on no call
\* for another host.
C26_KeyIsHost ==
    \A i \in 1..Len(calls) :
        calls[i].res = (Cardinality(AdmittedForHost(i)) < rate_limit)

====
